---- MODULE Spec2Model ----
(***************************************************************************)
(* Employer trust, verification and job-posting quota engine of the        *)
(* Jobscape backend: the employer row, the job rows, the request handlers  *)
(* of app/routes (job_routes, employer_routes, admin_routes), the OTP      *)
(* helpers of app/crud/auth_crud and the hourly sweep of                   *)
(* app/tasks/job_closure.                                                  *)
(*                                                                         *)
(* Seven specifications share the variables:                               *)
(*   SpecJobs   - the job handlers and the sweep, each run to completion   *)
(*                (sequential requests);                                   *)
(*   SpecSweep  - the same handlers from one FREE employer, with the       *)
(*                scheduler's sweep run again and again (weak fairness);   *)
(*   SpecAllJobs - SpecJobs' handlers with the job update and the admin's  *)
(*                delete besides;                                          *)
(*   SpecConc   - the /jobs handlers and the sweep split at their database *)
(*                statements, interleaved (each request has its own ORM    *)
(*                session, the sweep runs on the scheduler's thread);      *)
(*   SpecVerify - the verification handlers (registration completion, OTP, *)
(*                documents, admin decisions), each run to completion;     *)
(*   SpecResend - the OTP resend split at its database statements, two     *)
(*                requests interleaved with each other and with confirms;  *)
(*   SpecQuota  - the quota lookup and can_post_job over every employer    *)
(*                row, as the status endpoints report them.                *)
(***************************************************************************)
EXTENDS Integers, Sequences, FiniteSets, TLC

\* ------------------------------------------------------------------------
\* Bounds of the model
\* ------------------------------------------------------------------------
MaxJobs == 2        \* job rows ever inserted
MaxTime == 1        \* clock readings 0..MaxTime in the job specifications
MaxCount == 3       \* cap on active_job_posts_count (unlimited plans grow it without bound)
MaxNotes == 5       \* entries kept in verification_notes
MaxMinutes == 17    \* last clock reading in the verification specifications
MaxRequests == 4    \* requests accepted in one run of SpecConc
MaxDecisions == 2   \* admin decisions recorded in verification_notes
MaxActive == 151    \* largest active_job_posts_count drawn in SpecQuota

Employers == {"e1"}
JobIds == 1..MaxJobs
Procs == {1, 2}          \* concurrent request sessions

\* ------------------------------------------------------------------------
\* Enumerations
\* ------------------------------------------------------------------------
SubscriptionTier == {"FREE", "BASIC", "PREMIUM", "BUSINESS"}
SubscriptionStatus == {"ACTIVE", "EXPIRED", "CANCELLED", "PENDING"}
VerificationTiers ==
    {"UNVERIFIED", "EMAIL_VERIFIED", "DOCUMENT_VERIFIED", "FULLY_VERIFIED",
     "REJECTED", "SUSPENDED"}

None == "None"
NoTime == -1                       \* a NULL timestamp
NoWebsite == <<>>                  \* company_website IS NULL
NoJob == [row |-> "none"]          \* id never allocated
DeletedJob == [row |-> "deleted"]  \* row removed by db.delete

\* JOB_POSTING_LIMITS[sub][ver]; -1 is unlimited
JOB_POSTING_LIMITS ==
    [s \in SubscriptionTier |->
        CASE s = "FREE" ->
               [UNVERIFIED |-> 0, EMAIL_VERIFIED |-> 2,
                DOCUMENT_VERIFIED |-> 3, FULLY_VERIFIED |-> 5]
          [] s = "BASIC" ->
               [UNVERIFIED |-> 0, EMAIL_VERIFIED |-> 5,
                DOCUMENT_VERIFIED |-> 10, FULLY_VERIFIED |-> 15]
          [] s = "PREMIUM" ->
               [UNVERIFIED |-> 0, EMAIL_VERIFIED |-> 20,
                DOCUMENT_VERIFIED |-> 50, FULLY_VERIFIED |-> 100]
          [] s = "BUSINESS" ->
               [UNVERIFIED |-> 0, EMAIL_VERIFIED |-> 50,
                DOCUMENT_VERIFIED |-> 150, FULLY_VERIFIED |-> -1]]

VARIABLES
    employer,   \* employers table: Employers -> row
    jobs,       \* jobs table: JobIds -> row, NoJob or DeletedJob
    now,        \* datetime.now(timezone.utc): deadline units in the job
                \* specifications, minutes in SpecVerify
    DEV_MODE,   \* employer_routes.DEV_MODE, fixed at import
    last,       \* history.  SpecJobs, SpecVerify: what happened last, "served",
                \* "failed", "denied" (by the quota), "sweep", "sweep_again" (a pass
                \* right after a pass), "sweep_failed" (a pass rolled back), "tick",
                \* and for the OTP requests "confirmed",
                \* "confirm_failed", "resent", "reissued" (a resend that replaced a
                \* pending code by a different one), "resend_failed".  SpecConc:
                \* "floored" once a decrement has met a counter at 0.  SpecQuota:
                \* the response of the last status request
    paid,       \* jobs already charged a counter decrement since they last opened (history)
    closedBy,   \* SpecConc, per job: who committed a closure of it since it
                \* last opened, "manual" and/or "sweep" (history)
    admitted,   \* SpecConc, per employer: POST /jobs/ requests that returned 201 (history)
    req,        \* SpecConc: per request session, its position and ORM snapshot
    sweep,      \* SpecConc: the scheduler thread's position and ORM snapshot
    started     \* SpecConc: requests accepted so far

vars == <<employer, jobs, now, DEV_MODE, last, paid, closedBy, admitted,
          req, sweep, started>>

\* ------------------------------------------------------------------------
\* Employer methods
\* ------------------------------------------------------------------------

\* the lookup made in the FREE row whatever the subscription
get_job_posting_limit_FreeRow(emp) ==
    LET row == JOB_POSTING_LIMITS["FREE"]
    IN  IF emp.verification_tier \in DOMAIN row
        THEN row[emp.verification_tier]
        ELSE 0

\* dict.get(ver_tier, 0): tiers outside the matrix (REJECTED, SUSPENDED) give 0
get_job_posting_limit(emp) ==
    LET row == JOB_POSTING_LIMITS[emp.subscription_tier]
    IN  IF emp.verification_tier \in DOMAIN row
        THEN row[emp.verification_tier]
        ELSE 0

can_post_job_LimitInclusive(emp) ==
    IF emp.subscription_status # "ACTIVE"
    THEN [ok |-> FALSE, reason |-> "Subscription is not active", remaining |-> 0]
    ELSE IF emp.verification_tier = "UNVERIFIED"
    THEN [ok |-> FALSE, reason |-> "Please verify your work email first", remaining |-> 0]
    ELSE IF emp.verification_tier = "SUSPENDED"
    THEN [ok |-> FALSE, reason |-> "Account is suspended", remaining |-> 0]
    ELSE IF emp.verification_tier = "REJECTED"
    THEN [ok |-> FALSE, reason |-> "Verification was rejected", remaining |-> 0]
    ELSE LET limit == get_job_posting_limit(emp)
         IN  IF limit = -1
             THEN [ok |-> TRUE, reason |-> "Unlimited job postings", remaining |-> -1]
             ELSE IF emp.active_job_posts_count <= limit
             THEN [ok |-> TRUE, reason |-> "Can post",
                   remaining |-> limit - emp.active_job_posts_count]
             ELSE [ok |-> FALSE, reason |-> "Job posting limit reached", remaining |-> 0]

\* can_post_job without the subscription status check
can_post_job_AnyStatus(emp) ==
    IF emp.verification_tier = "UNVERIFIED"
    THEN [ok |-> FALSE, reason |-> "Please verify your work email first", remaining |-> 0]
    ELSE IF emp.verification_tier = "SUSPENDED"
    THEN [ok |-> FALSE, reason |-> "Account is suspended", remaining |-> 0]
    ELSE IF emp.verification_tier = "REJECTED"
    THEN [ok |-> FALSE, reason |-> "Verification was rejected", remaining |-> 0]
    ELSE LET limit == get_job_posting_limit(emp)
         IN  IF limit = -1
             THEN [ok |-> TRUE, reason |-> "Unlimited job postings", remaining |-> -1]
             ELSE IF emp.active_job_posts_count < limit
             THEN [ok |-> TRUE, reason |-> "Can post",
                   remaining |-> limit - emp.active_job_posts_count]
             ELSE [ok |-> FALSE, reason |-> "Job posting limit reached", remaining |-> 0]

\* (can_post, reason); remaining is the number the success reason carries,
\* -1 or 0 where the reason carries none
can_post_job(emp) ==
    IF emp.subscription_status # "ACTIVE"
    THEN [ok |-> FALSE, reason |-> "Subscription is not active", remaining |-> 0]
    ELSE IF emp.verification_tier = "UNVERIFIED"
    THEN [ok |-> FALSE, reason |-> "Please verify your work email first", remaining |-> 0]
    ELSE IF emp.verification_tier = "SUSPENDED"
    THEN [ok |-> FALSE, reason |-> "Account is suspended", remaining |-> 0]
    ELSE IF emp.verification_tier = "REJECTED"
    THEN [ok |-> FALSE, reason |-> "Verification was rejected", remaining |-> 0]
    ELSE LET limit == get_job_posting_limit(emp)
         IN  IF limit = -1
             THEN [ok |-> TRUE, reason |-> "Unlimited job postings", remaining |-> -1]
             ELSE IF emp.active_job_posts_count < limit
             THEN [ok |-> TRUE, reason |-> "Can post",
                   remaining |-> limit - emp.active_job_posts_count]
             ELSE [ok |-> FALSE, reason |-> "Job posting limit reached", remaining |-> 0]

\* max(0, employer.active_job_posts_count - 1)
DecrementFloored_NoFloor(n) == n - 1

DecrementFloored(n) == IF n - 1 > 0 THEN n - 1 ELSE 0

\* ------------------------------------------------------------------------
\* Rows
\* ------------------------------------------------------------------------

\* Employer(...) as inserted by register_employer, column defaults applied
NewEmployer ==
    [profile_completed |-> FALSE,
     company_type |-> "REGISTERED",
     work_email_domain |-> <<"mail", "com">>,
     company_website |-> NoWebsite,
     verification_tier |-> "UNVERIFIED",
     trust_score |-> 20,
     work_email_verified |-> FALSE,
     work_email_verification_token |-> None,
     work_email_verification_sent_at |-> NoTime,
     verification_notes |-> <<>>,
     verified_by |-> None,
     subscription_tier |-> "FREE",
     subscription_status |-> "ACTIVE",
     subscription_expires_at |-> NoTime,
     active_job_posts_count |-> 0,
     total_job_posts_count |-> 0]

\* Job(...) as inserted by either create_job
NewJob(e, deadline) ==
    [row |-> "live",
     employer_id |-> e,
     is_active |-> TRUE,
     is_closed |-> FALSE,
     application_deadline |-> deadline,
     closure_reason |-> None]

IsRow(j) == jobs[j].row = "live"

\* uuid4 primary keys are never reused: the next unused id
FreeIds == {j \in JobIds : jobs[j] = NoJob}
NextId == CHOOSE j \in FreeIds : \A k \in FreeIds : j <= k

\* db.query(Job).filter(Job.id == job_id, Job.employer_id == employer.id).first()
OwnJob(e, j) == IsRow(j) /\ jobs[j].employer_id = e

\* the job occupies a posting slot: Job.is_active == True, Job.is_closed == False
IsOpen(j) == IsRow(j) /\ jobs[j].is_active /\ ~jobs[j].is_closed

OpenJobsOf(e) == {j \in JobIds : IsOpen(j) /\ jobs[j].employer_id = e}

\* ------------------------------------------------------------------------
\* History bookkeeping
\* ------------------------------------------------------------------------
\* the outcome of a request, as last keeps it; the OTP requests are told apart
Served(op, ok) ==
    CASE op = "confirm" -> IF ok THEN "confirmed" ELSE "confirm_failed"
      [] op = "resend" -> IF ok THEN "resent" ELSE "resend_failed"
      [] OTHER -> IF ok THEN "served" ELSE "failed"

\* a request session: where the handler stands, its path and query arguments,
\* and the employer counters as its ORM session last loaded them
IdleReq == [pc |-> "idle", e |-> "e1", j |-> 0, deadline |-> 0,
            active |-> 0, total |-> 0]
\* the sweep's session: the rows of its query still to visit, the employer
\* counters it has loaded (-1: not loaded), the jobs it has marked closed
IdleSweep == [pc |-> "idle", todo |-> <<>>, cache |-> [e \in Employers |-> -1],
              closed |-> {}]

JobsQuiet == /\ req = [p \in Procs |-> IdleReq]
             /\ sweep = IdleSweep
             /\ UNCHANGED <<req, sweep, DEV_MODE, started, closedBy, admitted>>

\* ------------------------------------------------------------------------
\* SpecJobs: /jobs handlers (app/routes/job_routes.py), run to completion
\* ------------------------------------------------------------------------

\* POST /jobs/
JobRoutes_create_job(e, deadline) ==
    /\ JobsQuiet
    /\ deadline > now
    /\ LET cp == can_post_job(employer[e])
           j == NextId
       IN  IF ~cp.ok
           THEN /\ last' = "denied"
                /\ UNCHANGED <<employer, jobs, now, paid>>
           ELSE /\ FreeIds # {}
                /\ jobs' = [jobs EXCEPT ![j] = NewJob(e, deadline)]
                /\ employer' = [employer EXCEPT
                       ![e].active_job_posts_count = @ + 1,
                       ![e].total_job_posts_count = @ + 1]
                /\ last' = Served("job_routes.create_job", TRUE)
                /\ UNCHANGED <<now, paid>>

\* DELETE /jobs/{job_id}: job_crud.delete_job then the counter
JobRoutes_delete_job(e, j) ==
    /\ JobsQuiet
    /\ IF ~OwnJob(e, j)
       THEN /\ last' = Served("job_routes.delete_job", FALSE)
            /\ UNCHANGED <<employer, jobs, now, paid>>
       ELSE /\ jobs' = [jobs EXCEPT ![j].is_active = FALSE]
            /\ employer' = [employer EXCEPT
                   ![e].active_job_posts_count = DecrementFloored(@)]
            /\ paid' = IF employer[e].active_job_posts_count > 0 THEN paid \cup {j} ELSE paid
            /\ last' = Served("job_routes.delete_job", TRUE)
            /\ UNCHANGED <<now>>

\* POST /jobs/{job_id}/close
close_job_manually(e, j) ==
    /\ JobsQuiet
    /\ IF ~OwnJob(e, j) \/ jobs[j].is_closed
       THEN /\ last' = Served("job_routes.close_job_manually", FALSE)
            /\ UNCHANGED <<employer, jobs, now, paid>>
       ELSE /\ jobs' = [jobs EXCEPT ![j].is_active = FALSE,
                                    ![j].is_closed = TRUE,
                                    ![j].closure_reason = "manual"]
            /\ employer' = [employer EXCEPT
                   ![e].active_job_posts_count = DecrementFloored(@)]
            /\ paid' = IF employer[e].active_job_posts_count > 0 THEN paid \cup {j} ELSE paid
            /\ last' = Served("job_routes.close_job_manually", TRUE)
            /\ UNCHANGED <<now>>

\* POST /jobs/{job_id}/reopen
JobRoutes_reopen_job(e, j, new_deadline) ==
    /\ JobsQuiet
    /\ employer[e].active_job_posts_count < MaxCount
    /\ IF \/ ~OwnJob(e, j)
          \/ ~jobs[j].is_closed
          \/ ~can_post_job(employer[e]).ok
          \/ new_deadline <= now
       THEN /\ last' = Served("job_routes.reopen_job", FALSE)
            /\ UNCHANGED <<employer, jobs, now, paid>>
       ELSE /\ jobs' = [jobs EXCEPT ![j].is_active = TRUE,
                                    ![j].is_closed = FALSE,
                                    ![j].application_deadline = new_deadline,
                                    ![j].closure_reason = None]
            /\ employer' = [employer EXCEPT ![e].active_job_posts_count = @ + 1]
            /\ paid' = paid \ {j}
            /\ last' = Served("job_routes.reopen_job", TRUE)
            /\ UNCHANGED <<now>>

\* PATCH /jobs/{job_id}: job_crud.update_job sets every field the body gives
\* (<<>>: not given, <<v>>: the value v), with no check on the value;
\* is_active and application_deadline are the fields the quota and the sweep
\* read
update_job(e, j, is_active, application_deadline) ==
    /\ JobsQuiet
    /\ IF ~OwnJob(e, j)
       THEN /\ last' = Served("job_routes.update_job", FALSE)
            /\ UNCHANGED <<employer, jobs, now, paid>>
       ELSE /\ jobs' = [jobs EXCEPT
                   ![j].is_active = IF is_active = <<>> THEN @ ELSE is_active[1],
                   ![j].application_deadline =
                       IF application_deadline = <<>> THEN @ ELSE application_deadline[1]]
            /\ paid' = IF is_active = <<TRUE>> /\ ~jobs[j].is_active /\ ~jobs[j].is_closed
                       THEN paid \ {j} ELSE paid
            /\ last' = Served("job_routes.update_job", TRUE)
            /\ UNCHANGED <<employer, now>>

\* DELETE /admin/jobs/{job_id}: db.delete(job), no counter touched
admin_delete_job(j) ==
    /\ JobsQuiet
    /\ IF ~IsRow(j)
       THEN /\ last' = Served("admin_routes.admin_delete_job", FALSE)
            /\ UNCHANGED <<employer, jobs, now, paid>>
       ELSE /\ jobs' = [jobs EXCEPT ![j] = DeletedJob]
            /\ paid' = paid \ {j}
            /\ last' = Served("admin_routes.admin_delete_job", TRUE)
            /\ UNCHANGED <<employer, now>>

\* ------------------------------------------------------------------------
\* SpecJobs: /employer/jobs handlers (app/routes/employer_routes.py)
\* ------------------------------------------------------------------------

\* POST /employer/jobs
EmployerRoutes_create_job(e, deadline) ==
    /\ JobsQuiet
    /\ FreeIds # {}
    /\ deadline > now
    /\ IF ~employer[e].work_email_verified
       THEN /\ last' = Served("employer_routes.create_job", FALSE)
            /\ UNCHANGED <<employer, jobs, now, paid>>
       ELSE /\ jobs' = [jobs EXCEPT ![NextId] = NewJob(e, deadline)]
            /\ last' = Served("employer_routes.create_job", TRUE)
            /\ UNCHANGED <<employer, now, paid>>

\* DELETE /employer/jobs/{job_id}: db.delete(job)
EmployerRoutes_delete_job(e, j) ==
    /\ JobsQuiet
    /\ IF ~OwnJob(e, j)
       THEN /\ last' = Served("employer_routes.delete_job", FALSE)
            /\ UNCHANGED <<employer, jobs, now, paid>>
       ELSE /\ jobs' = [jobs EXCEPT ![j] = DeletedJob]
            /\ paid' = paid \ {j}
            /\ last' = Served("employer_routes.delete_job", TRUE)
            /\ UNCHANGED <<employer, now>>

\* POST /employer/jobs/{job_id}/close
EmployerRoutes_close_job(e, j) ==
    /\ JobsQuiet
    /\ IF ~OwnJob(e, j)
       THEN /\ last' = Served("employer_routes.close_job", FALSE)
            /\ UNCHANGED <<employer, jobs, now, paid>>
       ELSE /\ jobs' = [jobs EXCEPT ![j].is_active = FALSE,
                                    ![j].is_closed = TRUE]
            /\ last' = Served("employer_routes.close_job", TRUE)
            /\ UNCHANGED <<employer, now, paid>>

\* POST /employer/jobs/{job_id}/reopen
EmployerRoutes_reopen_job(e, j) ==
    /\ JobsQuiet
    /\ IF ~OwnJob(e, j)
       THEN /\ last' = Served("employer_routes.reopen_job", FALSE)
            /\ UNCHANGED <<employer, jobs, now, paid>>
       ELSE /\ jobs' = [jobs EXCEPT ![j].is_active = TRUE,
                                    ![j].is_closed = FALSE]
            /\ paid' = IF IsOpen(j) THEN paid ELSE paid \ {j}
            /\ last' = Served("employer_routes.reopen_job", TRUE)
            /\ UNCHANGED <<employer, now>>

\* ------------------------------------------------------------------------
\* The expiry sweep (app/tasks/job_closure.py)
\* ------------------------------------------------------------------------

\* is_active == True, is_closed == False, application_deadline <= now
Expired_DeadlineOnly(j, t) ==
    /\ jobs[j].row = "live"
    /\ jobs[j].application_deadline <= t

Expired(j, t) ==
    /\ jobs[j].row = "live"
    /\ jobs[j].is_active
    /\ ~jobs[j].is_closed
    /\ jobs[j].application_deadline <= t

\* the rows of a query, in primary-key order
RECURSIVE SeqOf(_)
SeqOf(S) ==
    IF S = {} THEN <<>>
    ELSE LET m == CHOOSE x \in S : \A y \in S : x <= y
         IN  <<m>> \o SeqOf(S \ {m})

\* the query with .first() in place of .all()
expired_jobs_FirstOnly(t) ==
    LET rows == SeqOf({j \in JobIds : Expired(j, t)})
    IN  IF rows = <<>> THEN rows ELSE <<Head(rows)>>

expired_jobs(t) == SeqOf({j \in JobIds : Expired(j, t)})

\* one pass of the for loop over a session state st = [jobs, cache, charged, closed]:
\* cache[e] is the employer row's counter in the session (-1: not loaded yet),
\* read from the table rows emps on first use
SweepJob(st, j, emps) ==
    LET e == st.jobs[j].employer_id
        loaded == IF st.cache[e] = -1
                  THEN emps[e].active_job_posts_count
                  ELSE st.cache[e]
    IN  [jobs |-> [st.jobs EXCEPT ![j].is_active = FALSE,
                                  ![j].is_closed = TRUE,
                                  ![j].closure_reason = "deadline_passed"],
         cache |-> [st.cache EXCEPT ![e] = IF loaded > 0 THEN loaded - 1 ELSE loaded],
         charged |-> IF loaded > 0 THEN st.charged \cup {j} ELSE st.charged,
         closed |-> st.closed \cup {j}]

RECURSIVE SweepLoop(_, _, _)
SweepLoop(st, todo, emps) ==
    IF todo = <<>> THEN st
    ELSE SweepLoop(SweepJob(st, Head(todo), emps), Tail(todo), emps)

\* db.commit(): the session's employer counters written back
SweepCommit(emps, cache) ==
    [e \in Employers |->
        IF cache[e] = -1 THEN emps[e]
        ELSE [emps[e] EXCEPT !.active_job_posts_count = cache[e]]]

\* close_expired_jobs(), run to completion
close_expired_jobs ==
    /\ JobsQuiet
    /\ LET st == SweepLoop([jobs |-> jobs, cache |-> IdleSweep.cache,
                            charged |-> {}, closed |-> {}],
                           expired_jobs(now), employer)
       IN  /\ jobs' = st.jobs
           /\ employer' = SweepCommit(employer, st.cache)
           /\ paid' = paid \cup st.charged
           /\ last' = IF last \in {"sweep", "sweep_again"} THEN "sweep_again" ELSE "sweep"
    /\ UNCHANGED <<now>>

\* the except branch with db.commit() in place of db.rollback()
SweepRollback_Commit(st) ==
    [jobs |-> st.jobs, employer |-> SweepCommit(employer, st.cache), paid |-> paid \cup st.charged]

\* db.rollback(): what the session st had changed is discarded, the tables
\* stay as they were when the pass began
SweepRollback(st) ==
    [jobs |-> jobs, employer |-> employer, paid |-> paid]

\* close_expired_jobs() when an exception is raised after the loop has gone
\* through the first k rows (k = 0: the query raises; k = all: the commit
\* raises): the except branch rolls back and 0 is returned
close_expired_jobs_error ==
    /\ JobsQuiet
    /\ \E k \in 0..Len(expired_jobs(now)) :
          LET st == SweepLoop([jobs |-> jobs, cache |-> IdleSweep.cache,
                               charged |-> {}, closed |-> {}],
                              SubSeq(expired_jobs(now), 1, k), employer)
              db == SweepRollback(st)
          IN  /\ jobs' = db.jobs
              /\ employer' = db.employer
              /\ paid' = db.paid
    /\ last' = "sweep_failed"
    /\ UNCHANGED <<now>>

\* time passes
Tick ==
    /\ JobsQuiet
    /\ now < MaxTime
    /\ now' = now + 1
    /\ last' = "tick"
    /\ UNCHANGED <<employer, jobs, paid>>

\* ------------------------------------------------------------------------
\* SpecJobs
\* ------------------------------------------------------------------------

\* verification / subscription states of an employer about to post jobs
QuotaConfigs ==
    {[sub |-> "FREE", status |-> "ACTIVE", tier |-> "EMAIL_VERIFIED", wev |-> TRUE, trust |-> 60],
     [sub |-> "FREE", status |-> "ACTIVE", tier |-> "DOCUMENT_VERIFIED", wev |-> TRUE, trust |-> 75],
     [sub |-> "FREE", status |-> "ACTIVE", tier |-> "UNVERIFIED", wev |-> FALSE, trust |-> 20],
     [sub |-> "FREE", status |-> "PENDING", tier |-> "EMAIL_VERIFIED", wev |-> TRUE, trust |-> 60],
     [sub |-> "FREE", status |-> "ACTIVE", tier |-> "SUSPENDED", wev |-> TRUE, trust |-> 0],
     [sub |-> "FREE", status |-> "ACTIVE", tier |-> "REJECTED", wev |-> TRUE, trust |-> 75],
     [sub |-> "BUSINESS", status |-> "ACTIVE", tier |-> "FULLY_VERIFIED", wev |-> TRUE, trust |-> 85]}

EmployerAt(c) ==
    [NewEmployer EXCEPT !.profile_completed = TRUE,
                        !.subscription_tier = c.sub,
                        !.subscription_status = c.status,
                        !.verification_tier = c.tier,
                        !.work_email_verified = c.wev,
                        !.trust_score = c.trust]

Deadlines == 1..(MaxTime + 1)

InitCommon ==
    /\ jobs = [j \in JobIds |-> NoJob]
    /\ now = 0
    /\ last = "init"
    /\ paid = {}
    /\ closedBy = [j \in JobIds |-> {}]
    /\ admitted = [e \in Employers |-> 0]
    /\ req = [p \in Procs |-> IdleReq]
    /\ sweep = IdleSweep
    /\ started = 0

InitJobs ==
    /\ InitCommon
    /\ DEV_MODE = TRUE
    /\ \E c \in QuotaConfigs : employer = [e \in Employers |-> EmployerAt(c)]

NextJobs ==
    \/ \E e \in Employers, d \in Deadlines : JobRoutes_create_job(e, d)
    \/ \E e \in Employers, j \in JobIds : JobRoutes_delete_job(e, j)
    \/ \E e \in Employers, j \in JobIds : close_job_manually(e, j)
    \/ \E e \in Employers, j \in JobIds, d \in Deadlines : JobRoutes_reopen_job(e, j, d)
    \/ \E e \in Employers, d \in Deadlines : EmployerRoutes_create_job(e, d)
    \/ \E e \in Employers, j \in JobIds : EmployerRoutes_delete_job(e, j)
    \/ \E e \in Employers, j \in JobIds : EmployerRoutes_close_job(e, j)
    \/ \E e \in Employers, j \in JobIds : EmployerRoutes_reopen_job(e, j)
    \/ close_expired_jobs
    \/ close_expired_jobs_error
    \/ Tick

SpecJobs == InitJobs /\ [][NextJobs]_vars

\* the scheduler runs close_expired_jobs every hour for as long as the
\* application is up, and a pass that meets no error completes
\* one FREE, ACTIVE, EMAIL_VERIFIED employer (limit 2) and no job
InitFree ==
    /\ InitCommon
    /\ DEV_MODE = TRUE
    /\ employer = [e \in Employers |->
           EmployerAt([sub |-> "FREE", status |-> "ACTIVE", tier |-> "EMAIL_VERIFIED",
                       wev |-> TRUE, trust |-> 60])]

SpecSweep == InitFree /\ [][NextJobs]_vars /\ WF_vars(close_expired_jobs)

\* SpecJobs's handlers together with the job update and the admin's delete
NextAllJobs ==
    \/ NextJobs
    \/ \E e \in Employers, j \in JobIds, is_active \in {<<>>, <<TRUE>>, <<FALSE>>},
          d \in {<<>>} \cup {<<t>> : t \in 0..(MaxTime + 1)} :
          update_job(e, j, is_active, d)
    \/ \E j \in JobIds : admin_delete_job(j)

SpecAllJobs == InitFree /\ [][NextAllJobs]_vars

\* ------------------------------------------------------------------------
\* SpecConc: the /jobs handlers and the sweep, one database statement or
\* commit per step.  Every request has its own session (get_db); a session
\* keeps the rows it loaded until it commits, a commit expires them so that
\* the next attribute access loads the row again, and an UPDATE writes the
\* value the session computed.
\* ------------------------------------------------------------------------
ConcQuiet == UNCHANGED <<DEV_MODE, paid>>
Step == ConcQuiet /\ UNCHANGED started
Begin == ConcQuiet /\ started < MaxRequests /\ started' = started + 1

\* a new request is served by the first worker that is free
FreeSlot(p) ==
    /\ req[p].pc = "idle"
    /\ \A q \in Procs : req[q].pc = "idle" => p <= q

Goto(p, pc) == req' = [req EXCEPT ![p].pc = pc]
Finish(p) == req' = [req EXCEPT ![p] = IdleReq]

\* the employer row as the session sees it: the loaded counters over the row
Loaded(p) ==
    [employer[req[p].e] EXCEPT !.active_job_posts_count = req[p].active,
                               !.total_job_posts_count = req[p].total]

\* create_job: get_employer_by_user_id, can_post_job on the loaded row
create_job_check(p, e, deadline) ==
    /\ Begin
    /\ FreeSlot(p)
    /\ deadline > now
    /\ IF ~can_post_job(employer[e]).ok
       THEN UNCHANGED req
       ELSE req' = [req EXCEPT ![p] =
                   [IdleReq EXCEPT !.pc = "create_insert", !.e = e, !.deadline = deadline]]
    /\ UNCHANGED <<employer, jobs, now, last, closedBy, admitted, sweep>>

\* create_job: job_crud.create_job inserts the row and commits
create_job_insert(p) ==
    /\ Step
    /\ req[p].pc = "create_insert"
    /\ FreeIds # {}
    /\ jobs' = [jobs EXCEPT ![NextId] = NewJob(req[p].e, req[p].deadline)]
    /\ req' = [req EXCEPT ![p].pc = "create_load", ![p].j = NextId]
    /\ UNCHANGED <<employer, now, last, closedBy, admitted, sweep>>

\* create_job: "employer.active_job_posts_count += 1" loads the expired row
create_job_load(p) ==
    /\ Step
    /\ req[p].pc = "create_load"
    /\ req' = [req EXCEPT ![p].pc = "create_commit",
                          ![p].active = employer[req[p].e].active_job_posts_count,
                          ![p].total = employer[req[p].e].total_job_posts_count]
    /\ UNCHANGED <<employer, jobs, now, last, closedBy, admitted, sweep>>

\* create_job: db.commit() writes both counters
create_job_commit(p) ==
    /\ Step
    /\ req[p].pc = "create_commit"
    /\ employer' = [employer EXCEPT
           ![req[p].e].active_job_posts_count = req[p].active + 1,
           ![req[p].e].total_job_posts_count = req[p].total + 1]
    /\ admitted' = [admitted EXCEPT ![req[p].e] = @ + 1]
    /\ UNCHANGED last
    /\ Finish(p)
    /\ UNCHANGED <<jobs, now, closedBy, sweep>>

\* delete_job: job_crud.delete_job (select, is_active = False, commit)
delete_job_crud(p, e, j) ==
    /\ Begin
    /\ FreeSlot(p)
    /\ IF ~OwnJob(e, j)
       THEN UNCHANGED <<req, jobs>>
       ELSE /\ jobs' = [jobs EXCEPT ![j].is_active = FALSE]
            /\ req' = [req EXCEPT ![p] = [IdleReq EXCEPT !.pc = "delete_load", !.e = e, !.j = j]]
    /\ UNCHANGED <<employer, now, last, closedBy, admitted, sweep>>

\* delete_job: "employer.active_job_posts_count - 1" loads the expired row
delete_job_load(p) ==
    /\ Step
    /\ req[p].pc = "delete_load"
    /\ req' = [req EXCEPT ![p].pc = "delete_commit",
                          ![p].active = employer[req[p].e].active_job_posts_count]
    /\ UNCHANGED <<employer, jobs, now, last, closedBy, admitted, sweep>>

\* delete_job: db.commit() writes max(0, loaded - 1)
delete_job_commit(p) ==
    /\ Step
    /\ req[p].pc = "delete_commit"
    /\ employer' = [employer EXCEPT
           ![req[p].e].active_job_posts_count = DecrementFloored(req[p].active)]
    /\ last' = IF req[p].active = 0 THEN "floored" ELSE last
    /\ Finish(p)
    /\ UNCHANGED <<jobs, now, closedBy, admitted, sweep>>

\* close_job_manually / reopen_job: get_employer_by_user_id loads the row
load_employer(p, e, j, deadline, next) ==
    /\ Begin
    /\ FreeSlot(p)
    /\ req' = [req EXCEPT ![p] =
           [pc |-> next, e |-> e, j |-> j, deadline |-> deadline,
            active |-> employer[e].active_job_posts_count,
            total |-> employer[e].total_job_posts_count]]
    /\ UNCHANGED <<employer, jobs, now, last, closedBy, admitted, sweep>>

close_job_begin(p, e, j) == load_employer(p, e, j, 0, "close_select")

\* close_job_manually: the job is selected; 404 / 400 end the request
close_job_select(p) ==
    /\ Step
    /\ req[p].pc = "close_select"
    /\ IF ~OwnJob(req[p].e, req[p].j) \/ jobs[req[p].j].is_closed
       THEN Finish(p)
       ELSE Goto(p, "close_commit")
    /\ UNCHANGED <<employer, jobs, now, last, closedBy, admitted, sweep>>

\* close_job_manually: db.commit() writes the job and max(0, loaded - 1)
close_job_commit(p) ==
    /\ Step
    /\ req[p].pc = "close_commit"
    /\ jobs' = [jobs EXCEPT ![req[p].j].is_active = FALSE,
                            ![req[p].j].is_closed = TRUE,
                            ![req[p].j].closure_reason = "manual"]
    /\ employer' = [employer EXCEPT
           ![req[p].e].active_job_posts_count = DecrementFloored(req[p].active)]
    /\ closedBy' = [closedBy EXCEPT ![req[p].j] = @ \cup {"manual"}]
    /\ last' = IF req[p].active = 0 THEN "floored" ELSE last
    /\ Finish(p)
    /\ UNCHANGED <<now, admitted, sweep>>

reopen_job_begin(p, e, j, new_deadline) == load_employer(p, e, j, new_deadline, "reopen_select")

\* reopen_job: the job is selected, can_post_job runs on the loaded row
reopen_job_select(p) ==
    /\ Step
    /\ req[p].pc = "reopen_select"
    /\ IF \/ ~OwnJob(req[p].e, req[p].j)
          \/ ~jobs[req[p].j].is_closed
          \/ ~can_post_job(Loaded(p)).ok
          \/ req[p].deadline <= now
       THEN Finish(p)
       ELSE Goto(p, "reopen_commit")
    /\ UNCHANGED <<employer, jobs, now, last, closedBy, admitted, sweep>>

\* reopen_job: db.commit() writes the job and loaded + 1
reopen_job_commit(p) ==
    /\ Step
    /\ req[p].pc = "reopen_commit"
    /\ req[p].active < MaxCount
    /\ jobs' = [jobs EXCEPT ![req[p].j].is_active = TRUE,
                            ![req[p].j].is_closed = FALSE,
                            ![req[p].j].application_deadline = req[p].deadline,
                            ![req[p].j].closure_reason = None]
    /\ employer' = [employer EXCEPT
           ![req[p].e].active_job_posts_count = req[p].active + 1]
    /\ closedBy' = [closedBy EXCEPT ![req[p].j] = {}]
    /\ UNCHANGED last
    /\ Finish(p)
    /\ UNCHANGED <<now, admitted, sweep>>

\* close_expired_jobs: the query for the jobs past their deadline
sweep_query ==
    /\ Step
    /\ sweep.pc = "idle"
    /\ IF expired_jobs(now) = <<>>
       THEN UNCHANGED sweep
       ELSE sweep' = [IdleSweep EXCEPT !.pc = "loop", !.todo = expired_jobs(now)]
    /\ UNCHANGED <<employer, jobs, now, last, closedBy, admitted, req>>

\* close_expired_jobs: one pass of the loop (the employer row is loaded by the
\* first pass that meets it)
sweep_loop ==
    /\ Step
    /\ sweep.pc = "loop"
    /\ sweep.todo # <<>>
    /\ LET st == SweepJob([jobs |-> jobs, cache |-> sweep.cache,
                           charged |-> {}, closed |-> sweep.closed],
                          Head(sweep.todo), employer)
       IN  sweep' = [sweep EXCEPT !.todo = Tail(sweep.todo),
                                  !.cache = st.cache,
                                  !.closed = st.closed]
    /\ UNCHANGED <<employer, jobs, now, last, closedBy, admitted, req>>

\* close_expired_jobs: db.commit() writes the closed jobs and the counters
sweep_commit ==
    /\ Step
    /\ sweep.pc = "loop"
    /\ sweep.todo = <<>>
    /\ jobs' = [j \in JobIds |->
           IF j \in sweep.closed
           THEN [jobs[j] EXCEPT !.is_active = FALSE,
                                !.is_closed = TRUE,
                                !.closure_reason = "deadline_passed"]
           ELSE jobs[j]]
    /\ employer' = SweepCommit(employer, sweep.cache)
    /\ closedBy' = [j \in JobIds |->
           IF j \in sweep.closed THEN closedBy[j] \cup {"sweep"} ELSE closedBy[j]]
    /\ UNCHANGED last
    /\ sweep' = IdleSweep
    /\ UNCHANGED <<now, admitted, req>>

TickConc ==
    /\ Step
    /\ now < MaxTime
    /\ now' = now + 1
    /\ UNCHANGED <<employer, jobs, last, closedBy, admitted, req, sweep>>

ConcConfigs ==
    {c \in QuotaConfigs : c.status = "ACTIVE" /\ c.tier = "EMAIL_VERIFIED"}

InitConc ==
    /\ InitCommon
    /\ DEV_MODE = TRUE
    /\ \E c \in ConcConfigs : employer = [e \in Employers |-> EmployerAt(c)]

NextConc ==
    \/ \E p \in Procs, e \in Employers, d \in Deadlines : create_job_check(p, e, d)
    \/ \E p \in Procs : create_job_insert(p)
    \/ \E p \in Procs : create_job_load(p)
    \/ \E p \in Procs : create_job_commit(p)
    \/ \E p \in Procs, e \in Employers, j \in JobIds : delete_job_crud(p, e, j)
    \/ \E p \in Procs : delete_job_load(p)
    \/ \E p \in Procs : delete_job_commit(p)
    \/ \E p \in Procs, e \in Employers, j \in JobIds : close_job_begin(p, e, j)
    \/ \E p \in Procs : close_job_select(p)
    \/ \E p \in Procs : close_job_commit(p)
    \/ \E p \in Procs, e \in Employers, j \in JobIds, d \in Deadlines :
          reopen_job_begin(p, e, j, d)
    \/ \E p \in Procs : reopen_job_select(p)
    \/ \E p \in Procs : reopen_job_commit(p)
    \/ sweep_query
    \/ sweep_loop
    \/ sweep_commit
    \/ TickConc

SpecConc == InitConc /\ [][NextConc]_vars

\* ------------------------------------------------------------------------
\* SpecVerify: the verification handlers of one employer, one request after
\* the other.  The clock counts minutes.
\* ------------------------------------------------------------------------
DEV_VERIFICATION_CODE == "123456"
Codes == {DEV_VERIFICATION_CODE, "654321"}
CodeLifetime == 15        \* timedelta(minutes=15)
ResendInterval == 2       \* timedelta(minutes=2)
Admin == "admin"

BLOCKED_DOMAINS ==
    {<<"gmail", "com">>, <<"yahoo", "com">>, <<"outlook", "com">>,
     <<"hotmail", "com">>, <<"mail", "com">>, <<"protonmail", "com">>,
     <<"icloud", "com">>, <<"aol", "com">>, <<"zoho", "com">>,
     <<"yandex", "com">>, <<"gmx", "com">>}
generic_domains ==
    {<<"gmail", "com">>, <<"yahoo", "com">>, <<"outlook", "com">>,
     <<"hotmail", "com">>}

\* '.'.join(domain.split('.')[-2:])
BaseDomain(labels) ==
    IF Len(labels) <= 2 THEN labels
    ELSE SubSeq(labels, Len(labels) - 1, Len(labels))

\* re.sub(r'^(https?://)?(www\.)?', '', website): a leading www label goes
StripLeadingWww(labels) ==
    IF labels # <<>> /\ Head(labels) = "www" THEN Tail(labels) ELSE labels

\* website.replace('www.', ''): every www label goes
IsNotWww(l) == l # "www"
RemoveWww(labels) == SelectSeq(labels, IsNotWww)

\* mx: outcome of the MX lookup ("ok", "NXDOMAIN", "NoAnswer", "error")
verify_work_email_ownership(email_domain, company_website, mx) ==
    IF BaseDomain(email_domain) \in BLOCKED_DOMAINS THEN FALSE
    ELSE IF BaseDomain(email_domain) # BaseDomain(StripLeadingWww(company_website)) THEN FALSE
    ELSE mx \notin {"NXDOMAIN", "NoAnswer"}

MxOutcomes == {"ok", "NXDOMAIN", "NoAnswer", "error"}
EmailDomains == {<<"acme", "com">>, <<"gmail", "com">>}
Websites == {NoWebsite, <<"www", "acme", "com">>, <<"other", "org">>}
Profiles ==
    [company_type : {"REGISTERED", "STARTUP"},
     work_email_domain : EmailDomains,
     company_website : Websites]

\* request bodies that make a difference: once the profile is completed the
\* handler refuses before it reads the body, so one body stands for all
SubmittedProfiles(e) ==
    IF employer[e].profile_completed
    THEN {CHOOSE profile \in Profiles : TRUE}
    ELSE Profiles

VerifyQuiet == UNCHANGED <<jobs, DEV_MODE, paid, closedBy, admitted, req, sweep, started>>

\* employer.work_email_verification_token = code; ..._sent_at = now
create_work_email_verification_token(emp, code, t) ==
    [emp EXCEPT !.work_email_verification_token = code,
                !.work_email_verification_sent_at = t]

\* the MX lookup is made only for a REGISTERED company, the code is drawn
\* (secrets.randbelow) only outside DEV_MODE
complete_employer_registration(e, profile) ==
    /\ VerifyQuiet
    /\ now' = now
    /\ IF employer[e].profile_completed
       THEN /\ last' = "failed"
            /\ UNCHANGED employer
       ELSE \E mx \in IF profile.company_type = "REGISTERED" THEN MxOutcomes ELSE {"ok"},
               code \in IF DEV_MODE THEN {None} ELSE Codes :
               IF /\ profile.company_type = "REGISTERED"
                  /\ \/ profile.company_website = NoWebsite
                     \/ ~verify_work_email_ownership(profile.work_email_domain,
                                                     profile.company_website, mx)
               THEN /\ last' = "failed"
                    /\ UNCHANGED employer
               ELSE LET emp == [employer[e] EXCEPT
                                   !.profile_completed = TRUE,
                                   !.company_type = profile.company_type,
                                   !.work_email_domain = profile.work_email_domain,
                                   !.company_website = profile.company_website,
                                   !.verification_tier = "UNVERIFIED",
                                   !.trust_score = 20,
                                   !.work_email_verified = FALSE]
                    IN  /\ last' = "served"
                        /\ employer' = [employer EXCEPT ![e] =
                               IF DEV_MODE THEN emp
                               ELSE create_work_email_verification_token(emp, code, now)]

\* auth_crud.verify_work_email: the row after the call, or the row unchanged
\* with ok FALSE when it raises
verify_work_email_AnyCode(emp, code, t) ==
    IF \/ emp.work_email_verified
       \/ emp.work_email_verification_token = None
       \/ /\ emp.work_email_verification_sent_at # NoTime
          /\ t > emp.work_email_verification_sent_at + CodeLifetime
    THEN [ok |-> FALSE, emp |-> emp]
    ELSE LET verified == [emp EXCEPT !.work_email_verified = TRUE,
                                     !.work_email_verification_token = None]
             score == IF emp.company_website = NoWebsite THEN 40
                      ELSE IF emp.work_email_domain \in generic_domains THEN 40
                      ELSE IF BaseDomain(emp.work_email_domain)
                                = BaseDomain(RemoveWww(emp.company_website)) THEN 60
                      ELSE 45
         IN  [ok |-> TRUE,
              emp |-> IF emp.verification_tier = "UNVERIFIED"
                      THEN [verified EXCEPT !.verification_tier = "EMAIL_VERIFIED",
                                            !.trust_score = score]
                      ELSE verified]

verify_work_email(emp, code, t) ==
    IF \/ emp.work_email_verified
       \/ emp.work_email_verification_token = None
       \/ /\ emp.work_email_verification_sent_at # NoTime
          /\ t > emp.work_email_verification_sent_at + CodeLifetime
       \/ emp.work_email_verification_token # code
    THEN [ok |-> FALSE, emp |-> emp]
    ELSE LET verified == [emp EXCEPT !.work_email_verified = TRUE,
                                     !.work_email_verification_token = None]
             score == IF emp.company_website = NoWebsite THEN 40
                      ELSE IF emp.work_email_domain \in generic_domains THEN 40
                      ELSE IF BaseDomain(emp.work_email_domain)
                                = BaseDomain(RemoveWww(emp.company_website)) THEN 60
                      ELSE 45
         IN  [ok |-> TRUE,
              emp |-> IF emp.verification_tier = "UNVERIFIED"
                      THEN [verified EXCEPT !.verification_tier = "EMAIL_VERIFIED",
                                            !.trust_score = score]
                      ELSE verified]

confirm_work_email_verification(e, code) ==
    /\ VerifyQuiet
    /\ now' = now
    /\ IF DEV_MODE /\ code = DEV_VERIFICATION_CODE
       THEN /\ employer' = [employer EXCEPT
                   ![e].work_email_verified = TRUE,
                   ![e].verification_tier = "EMAIL_VERIFIED",
                   ![e].trust_score = 50,
                   ![e].work_email_verification_token = None]
            /\ last' = Served("confirm", TRUE)
       ELSE LET r == verify_work_email(employer[e], code, now)
            IN  /\ employer' = [employer EXCEPT ![e] = r.emp]
                /\ last' = Served("confirm", r.ok)

\* seconds_remaining = 120 - int(time_since_last.total_seconds()), the clock
\* counting minutes
seconds_remaining(emp, t) == 120 - 60 * (t - emp.work_email_verification_sent_at)

\* auth_crud.resend_work_email_verification
resend_work_email_verification_NoLimit(emp, code, t) ==
    IF emp.work_email_verified
    THEN [ok |-> FALSE, emp |-> emp]
    ELSE [ok |-> TRUE, emp |-> create_work_email_verification_token(emp, code, t)]

resend_work_email_verification(emp, code, t) ==
    IF \/ emp.work_email_verified
       \/ /\ emp.work_email_verification_sent_at # NoTime
          /\ t - emp.work_email_verification_sent_at < ResendInterval
    THEN [ok |-> FALSE, emp |-> emp]
    ELSE [ok |-> TRUE, emp |-> create_work_email_verification_token(emp, code, t)]

resend_work_email_code(e) ==
    /\ VerifyQuiet
    /\ now' = now
    /\ IF DEV_MODE
       THEN /\ last' = Served("resend", TRUE)
            /\ UNCHANGED employer
       ELSE \E code \in Codes :
              LET r == resend_work_email_verification(employer[e], code, now)
              IN  /\ employer' = [employer EXCEPT ![e] = r.emp]
                  /\ last' = IF /\ r.ok
                                 /\ employer[e].work_email_verification_token \notin {None, code}
                              THEN "reissued"
                              ELSE Served("resend", r.ok)

\* "\n".join(notes_parts): the new entry, then the marker and the old notes
SubmissionNotes(old) ==
    IF old = <<>> THEN <<"Submitted">>
    ELSE <<"Submitted", "--- Previous Notes ---">> \o old

\* employer.trust_score + 15 without the min
RaisedTrust_NoCap(score) == score + 15

\* min(employer.trust_score + 15, 100)
RaisedTrust(score) == IF score + 15 < 100 THEN score + 15 ELSE 100

\* the form fields of a submission: which identifiers and which files it has
Documents(rjsc, cert, tln, tl, tin, tinc) ==
    [rjsc_registration_number |-> rjsc, incorporation_cert |-> cert,
     trade_license_number |-> tln, trade_license |-> tl,
     tin_number |-> tin, tin_certificate |-> tinc]

\* nothing; a complete incorporation pair; an identifier alone; a file alone;
\* the identifier of one type with the file of another; a complete tax pair
\* beside a stray trade license file
DocumentSets ==
    {Documents(FALSE, FALSE, FALSE, FALSE, FALSE, FALSE),
     Documents(TRUE, TRUE, FALSE, FALSE, FALSE, FALSE),
     Documents(FALSE, FALSE, TRUE, FALSE, FALSE, FALSE),
     Documents(FALSE, FALSE, FALSE, TRUE, FALSE, FALSE),
     Documents(TRUE, FALSE, FALSE, TRUE, FALSE, FALSE),
     Documents(FALSE, FALSE, FALSE, TRUE, TRUE, TRUE)}

has_valid_submission_AnyField(documents) ==
    \/ documents.rjsc_registration_number \/ documents.incorporation_cert
    \/ documents.trade_license_number \/ documents.trade_license
    \/ documents.tin_number \/ documents.tin_certificate

has_valid_submission(documents) ==
    \/ documents.rjsc_registration_number /\ documents.incorporation_cert
    \/ documents.trade_license_number /\ documents.trade_license
    \/ documents.tin_number /\ documents.tin_certificate

\* submissions that make a difference: the handler refuses an incomplete
\* profile or a FULLY_VERIFIED employer before it looks at the form
SubmittedDocuments(e) ==
    IF \/ ~employer[e].profile_completed
       \/ employer[e].verification_tier = "FULLY_VERIFIED"
    THEN {CHOOSE documents \in DocumentSets : TRUE}
    ELSE DocumentSets

\* upload: whether validate_document_file and cloudinary accept every file
submit_verification_documents(e, documents) ==
    /\ VerifyQuiet
    /\ now' = now
    /\ IF \/ ~employer[e].profile_completed
          \/ employer[e].verification_tier = "FULLY_VERIFIED"
          \/ ~has_valid_submission(documents)
       THEN /\ last' = Served("submit", FALSE)
            /\ UNCHANGED employer
       ELSE \E upload \in {"ok", "fails"} :
              IF upload = "fails"
              THEN /\ last' = Served("submit", FALSE)
                   /\ UNCHANGED employer
              ELSE /\ Len(SubmissionNotes(employer[e].verification_notes)) <= MaxNotes
                   /\ last' = Served("submit", TRUE)
                   /\ employer' = [employer EXCEPT
                          ![e].verification_tier = "DOCUMENT_VERIFIED",
                          ![e].verification_notes = SubmissionNotes(@),
                          ![e].trust_score = RaisedTrust(@)]

IsDecision(entry) == entry \in {"APPROVED", "REJECTED", "SUSPENDED"}

\* room left in verification_notes for one more admin decision
CanRecordDecision(e) ==
    /\ Len(employer[e].verification_notes) < MaxNotes
    /\ Len(SelectSeq(employer[e].verification_notes, IsDecision)) < MaxDecisions

approve_verification(e) ==
    /\ VerifyQuiet
    /\ now' = now
    /\ IF employer[e].verification_tier \notin {"DOCUMENT_VERIFIED", "REJECTED"}
       THEN /\ last' = "failed"
            /\ UNCHANGED employer
       ELSE /\ CanRecordDecision(e)
            /\ last' = "served"
            /\ employer' = [employer EXCEPT
                   ![e].verification_tier = "FULLY_VERIFIED",
                   ![e].verified_by = Admin,
                   ![e].trust_score = 85,
                   ![e].verification_notes = Append(@, "APPROVED")]

reject_verification(e) ==
    /\ VerifyQuiet
    /\ now' = now
    /\ IF employer[e].verification_tier # "DOCUMENT_VERIFIED"
       THEN /\ last' = "failed"
            /\ UNCHANGED employer
       ELSE /\ CanRecordDecision(e)
            /\ last' = "served"
            /\ employer' = [employer EXCEPT
                   ![e].verification_tier = "REJECTED",
                   ![e].verified_by = Admin,
                   ![e].verification_notes = Append(@, "REJECTED")]

suspend_employer(e) ==
    /\ VerifyQuiet
    /\ now' = now
    /\ CanRecordDecision(e)
    /\ last' = "served"
    /\ employer' = [employer EXCEPT
           ![e].verification_tier = "SUSPENDED",
           ![e].trust_score = 0,
           ![e].verification_notes = Append(@, "SUSPENDED")]

\* the minutes at which a request can arrive: the first ones after a code was
\* sent at 0 (inside and past the resend interval) and the ones around the
\* end of its lifetime
Minutes == (0..(ResendInterval + 1)) \cup ((CodeLifetime - 1)..MaxMinutes)

\* time passes between two requests: the clock moves on to t
PassTime(t) ==
    /\ VerifyQuiet
    /\ t > now
    /\ now' = t
    /\ last' = "tick"
    /\ UNCHANGED employer

\* the state after register_employer
InitVerify ==
    /\ InitCommon
    /\ DEV_MODE \in BOOLEAN
    /\ employer = [e \in Employers |-> NewEmployer]

NextVerify ==
    \/ \E e \in Employers : \E profile \in SubmittedProfiles(e) :
          complete_employer_registration(e, profile)
    \/ \E e \in Employers, code \in Codes : confirm_work_email_verification(e, code)
    \/ \E e \in Employers : resend_work_email_code(e)
    \/ \E e \in Employers : \E documents \in SubmittedDocuments(e) :
          submit_verification_documents(e, documents)
    \/ \E e \in Employers : approve_verification(e)
    \/ \E e \in Employers : reject_verification(e)
    \/ \E e \in Employers : suspend_employer(e)
    \/ \E t \in Minutes : PassTime(t)

SpecVerify == InitVerify /\ [][NextVerify]_vars

\* ------------------------------------------------------------------------
\* SpecResend: POST /verify-work-email/resend split at its database
\* statements and interleaved with itself; registration completion and
\* confirm run between resends, the clock as in SpecVerify.
\* ------------------------------------------------------------------------
\* resend_work_email_code: the employer row is loaded and
\* resend_work_email_verification checks it (verified, rate limit)
resend_load(p, e) ==
    /\ FreeSlot(p)
    /\ started < MaxRequests
    /\ started' = started + 1
    /\ IF DEV_MODE
       THEN /\ last' = Served("resend", TRUE)
            /\ UNCHANGED req
       ELSE IF ~resend_work_email_verification(employer[e], None, now).ok
       THEN /\ last' = Served("resend", FALSE)
            /\ UNCHANGED req
       ELSE /\ last' = last
            /\ req' = [req EXCEPT ![p] = [pc |-> "resend_write", e |-> e]]
    /\ UNCHANGED <<employer, jobs, now, DEV_MODE, paid, closedBy, admitted, sweep>>

\* create_work_email_verification_token: the code is drawn, the code and
\* datetime.now are set on the row, db.commit() writes them
resend_write(p) ==
    /\ req[p].pc = "resend_write"
    /\ \E code \in Codes :
          employer' = [employer EXCEPT ![req[p].e] =
              create_work_email_verification_token(@, code, now)]
    /\ last' = Served("resend", TRUE)
    /\ Finish(p)
    /\ UNCHANGED <<jobs, now, DEV_MODE, paid, closedBy, admitted, sweep, started>>

\* registration is completed while no resend is under way; a confirm, a
\* request of its own session, may come between the read and the write of a
\* resend
NoResendUnderWay == \A p \in Procs : req[p].pc = "idle"

NextResend ==
    \/ \E e \in Employers : \E profile \in SubmittedProfiles(e) :
          NoResendUnderWay /\ complete_employer_registration(e, profile)
    \/ \E e \in Employers, code \in Codes : confirm_work_email_verification(e, code)
    \/ \E p \in Procs, e \in Employers : resend_load(p, e)
    \/ \E p \in Procs : resend_write(p)
    \/ \E t \in Minutes : PassTime(t)

SpecResend == InitVerify /\ [][NextResend]_vars

\* ------------------------------------------------------------------------
\* SpecQuota: the quota lookup and can_post_job as pure functions of the
\* employer row, applied by the two read-only status endpoints.  Here last
\* holds the response of the last request.
\* ------------------------------------------------------------------------

QuotaQuiet ==
    UNCHANGED <<employer, jobs, now, DEV_MODE, paid, closedBy, admitted, req, sweep, started>>

\* GET /jobs/employer/posting-status; where the limit is -1 the response says
\* "unlimited" for the limit and the remaining slots (unlimited TRUE)
get_posting_status(e) ==
    LET job_limit == get_job_posting_limit(employer[e])
        check == can_post_job(employer[e])
    IN  /\ last' = [op |-> "get_posting_status",
                    e |-> e,
                    job_posting_limit |-> job_limit,
                    unlimited |-> job_limit = -1,
                    active_jobs |-> employer[e].active_job_posts_count,
                    remaining |-> IF job_limit # -1
                                  THEN job_limit - employer[e].active_job_posts_count
                                  ELSE -1,
                    can_post_job |-> check.ok,
                    message |-> check.reason,
                    message_remaining |-> check.remaining]
        /\ QuotaQuiet

\* GET /subscription/status; the reason is computed and not returned
get_full_status(e) ==
    LET job_limit == get_job_posting_limit(employer[e])
        check == can_post_job(employer[e])
    IN  /\ last' = [op |-> "get_full_status",
                    e |-> e,
                    job_posting_limit |-> job_limit,
                    unlimited |-> job_limit = -1,
                    active_jobs |-> employer[e].active_job_posts_count,
                    remaining |-> IF job_limit # -1
                                  THEN job_limit - employer[e].active_job_posts_count
                                  ELSE -1,
                    can_post_job |-> check.ok,
                    message |-> None,
                    message_remaining |-> check.remaining]
        /\ QuotaQuiet

\* before any request
NoResponse ==
    [op |-> "init", e |-> None, job_posting_limit |-> 0, unlimited |-> FALSE,
     active_jobs |-> 0, remaining |-> 0, can_post_job |-> FALSE,
     message |-> None, message_remaining |-> 0]

\* POST /subscription/upgrade: no payment gateway yet, the request is only
\* marked PENDING
upgrade_subscription(e, tier) ==
    /\ IF tier \notin SubscriptionTier \/ tier = "FREE"
       THEN /\ last' = [NoResponse EXCEPT !.op = "upgrade_subscription", !.e = e,
                                          !.message = "refused"]
            /\ UNCHANGED employer
       ELSE /\ last' = [NoResponse EXCEPT !.op = "upgrade_subscription", !.e = e,
                                          !.message = "Upgrade request received"]
            /\ employer' = [employer EXCEPT ![e].subscription_status = "PENDING"]
    /\ UNCHANGED <<jobs, now, DEV_MODE, paid, closedBy, admitted, req, sweep, started>>

\* POST /subscription/cancel
cancel_subscription(e) ==
    /\ IF employer[e].subscription_tier = "FREE"
       THEN /\ last' = [NoResponse EXCEPT !.op = "cancel_subscription", !.e = e,
                                          !.message = "Already on FREE tier"]
            /\ UNCHANGED employer
       ELSE /\ last' = [NoResponse EXCEPT !.op = "cancel_subscription", !.e = e,
                          !.message = "Subscription will be cancelled at end of billing period"]
            /\ employer' = [employer EXCEPT ![e].subscription_status = "CANCELLED"]
    /\ UNCHANGED <<jobs, now, DEV_MODE, paid, closedBy, admitted, req, sweep, started>>

\* trust score and work_email_verified that go with a tier
TierConfig(tier) ==
    CASE tier = "UNVERIFIED" -> [wev |-> FALSE, trust |-> 20]
      [] tier = "EMAIL_VERIFIED" -> [wev |-> TRUE, trust |-> 60]
      [] tier = "DOCUMENT_VERIFIED" -> [wev |-> TRUE, trust |-> 75]
      [] tier = "FULLY_VERIFIED" -> [wev |-> TRUE, trust |-> 85]
      [] tier = "REJECTED" -> [wev |-> TRUE, trust |-> 75]
      [] tier = "SUSPENDED" -> [wev |-> TRUE, trust |-> 0]

\* every subscription tier, subscription status, verification tier and
\* counter; a paid subscription ends at 0 (now) or at 1 (later)
InitQuota ==
    /\ jobs = [j \in JobIds |-> NoJob]
    /\ now = 0
    /\ last = NoResponse
    /\ paid = {}
    /\ closedBy = [j \in JobIds |-> {}]
    /\ admitted = [e \in Employers |-> 0]
    /\ req = [p \in Procs |-> IdleReq]
    /\ sweep = IdleSweep
    /\ started = 0
    /\ DEV_MODE = TRUE
    /\ \E sub \in SubscriptionTier, status \in SubscriptionStatus,
          tier \in VerificationTiers, n \in 0..MaxActive,
          expires \in {NoTime, 0, 1} :
          /\ (expires = NoTime) <=> (sub = "FREE")
          /\ employer = [e \in Employers |->
                 [EmployerAt([sub |-> sub, status |-> status, tier |-> tier,
                              wev |-> TierConfig(tier).wev,
                              trust |-> TierConfig(tier).trust])
                    EXCEPT !.active_job_posts_count = n,
                           !.total_job_posts_count = n,
                           !.subscription_expires_at = expires]]

NextQuota ==
    \/ \E e \in Employers : get_posting_status(e)
    \/ \E e \in Employers : get_full_status(e)
    \/ \E e \in Employers, tier \in SubscriptionTier \cup {"GOLD"} :
          upgrade_subscription(e, tier)
    \/ \E e \in Employers : cancel_subscription(e)

SpecQuota == InitQuota /\ [][NextQuota]_vars

\* ------------------------------------------------------------------------
\* Properties of the job handlers run one after the other (SpecJobs)
\* ------------------------------------------------------------------------

\* C1: while the tiers stay the same and the limit L is not -1, a step taken
\* with active_job_posts_count <= L ends with active_job_posts_count <= L, and
\* the counter grows only in a step taken with active_job_posts_count < L.
C1_QuotaNeverExceeded ==
    [][\A e \in Employers :
         LET L == get_job_posting_limit(employer[e])
             a == employer[e].active_job_posts_count
         IN  (/\ L # -1
              /\ employer'[e].subscription_tier = employer[e].subscription_tier
              /\ employer'[e].verification_tier = employer[e].verification_tier
              /\ a <= L)
                => /\ employer'[e].active_job_posts_count <= L
                   /\ (employer'[e].active_job_posts_count > a => a < L)]_vars

\* a creation has just been refused at the limit of a FREE / EMAIL_VERIFIED employer
C1_Witness ==
    \E e \in Employers :
        /\ last = "denied"
        /\ employer[e].subscription_status = "ACTIVE"
        /\ get_job_posting_limit(employer[e]) = 2
        /\ employer[e].active_job_posts_count = 2
        /\ employer[e].total_job_posts_count >= 1

\* C2: no step inserts a job row for an employer whose can_post_job() is false.
C2_EveryCreationChecksQuota ==
    [][\A j \in JobIds :
         (jobs[j] = NoJob /\ jobs'[j].row = "live")
            => can_post_job(employer[jobs'[j].employer_id]).ok]_vars

\* C5: a close or delete request on a job that has already been charged a
\* decrement since it last opened leaves active_job_posts_count as it is.
C5_CloseDeleteIdempotent ==
    [][\A e \in Employers, j \in JobIds :
         (j \in paid /\ (\/ JobRoutes_delete_job(e, j)
                         \/ close_job_manually(e, j)
                         \/ EmployerRoutes_close_job(e, j)))
            => employer'[e].active_job_posts_count
                  = employer[e].active_job_posts_count]_vars

\* C6: a close request on an open job, through either close endpoint, leaves
\* active_job_posts_count one lower (0 stays 0).
C6_CloseDecrementsByOne ==
    [][\A e \in Employers, j \in JobIds :
         (IsOpen(j) /\ (close_job_manually(e, j) \/ EmployerRoutes_close_job(e, j)))
            => employer'[e].active_job_posts_count
                  = DecrementFloored(employer[e].active_job_posts_count)]_vars

\* C7: a sweep pass that directly follows a sweep pass changes no job row and
\* no employer row.
C7_SweepReentrant ==
    [][(last \in {"sweep", "sweep_again"} /\ last' = "sweep_again")
          => (jobs' = jobs /\ employer' = employer)]_vars

\* two passes in a row, the first of which closed a job whose owner still has
\* a posting counted
C7_Witness ==
    /\ last = "sweep_again"
    /\ \E j \in JobIds :
          /\ IsRow(j)
          /\ jobs[j].is_closed
          /\ jobs[j].closure_reason = "deadline_passed"
          /\ employer[jobs[j].employer_id].active_job_posts_count > 0

\* ------------------------------------------------------------------------
\* Properties of the job handlers under interleaving (SpecConc)
\* ------------------------------------------------------------------------
\* C3: concurrent creation requests of one employer are admitted as if one
\* after the other: once every request has returned, the counters account for
\* every admitted creation (no increment lost) and the jobs open do not
\* exceed the limit.
C3_ConcurrentCreateAtomic ==
    ((\A p \in Procs : req[p].pc = "idle") /\ sweep.pc = "idle") =>
        \A e \in Employers :
            /\ employer[e].total_job_posts_count = admitted[e]
            /\ get_job_posting_limit(employer[e]) # -1 =>
                   Cardinality(OpenJobsOf(e)) <= get_job_posting_limit(employer[e])

\* C4: active_job_posts_count is never negative, whatever the interleaving of
\* the requests and the sweep.
C4_CounterNeverNegative ==
    \A e \in Employers : employer[e].active_job_posts_count >= 0

\* a decrement met a counter already at 0 and left it there
C4_Witness ==
    /\ last = "floored"
    /\ \E e \in Employers : employer[e].active_job_posts_count = 0

\* C8: when a manual close and the sweep race on one job, only one of them
\* commits the closure of that job.
C8_CloseSweepRaceOnce ==
    \A j \in JobIds : ~({"manual", "sweep"} \subseteq closedBy[j])

\* ------------------------------------------------------------------------
\* Properties of the verification handlers (SpecVerify)
\* ------------------------------------------------------------------------
ListedTransitions ==
    {<<"UNVERIFIED", "EMAIL_VERIFIED">>,
     <<"EMAIL_VERIFIED", "DOCUMENT_VERIFIED">>,
     <<"DOCUMENT_VERIFIED", "FULLY_VERIFIED">>,
     <<"DOCUMENT_VERIFIED", "REJECTED">>,
     <<"REJECTED", "DOCUMENT_VERIFIED">>}
    \cup {<<t, "SUSPENDED">> : t \in VerificationTiers \ {"SUSPENDED"}}

\* C9: every change of verification_tier is one of the listed transitions.
C9_OnlyListedTransitions ==
    [][\A e \in Employers :
         employer'[e].verification_tier # employer[e].verification_tier =>
             <<employer[e].verification_tier, employer'[e].verification_tier>>
                 \in ListedTransitions]_vars

\* C10: once the tier is SUSPENDED no operation changes the tier or raises the
\* trust score, and can_post_job stays false.
C10_SuspendedIsTerminal ==
    [][\A e \in Employers :
         employer[e].verification_tier = "SUSPENDED" =>
             /\ employer'[e].verification_tier = "SUSPENDED"
             /\ employer'[e].trust_score <= employer[e].trust_score
             /\ ~can_post_job(employer'[e]).ok]_vars

\* C11: an admin approve of an employer whose tier is not DOCUMENT_VERIFIED
\* fails and leaves the employer row (tier, trust_score, verified_by,
\* verification_notes) as it was.
C11_ApproveOnlyFromDocumentVerified ==
    [][\A e \in Employers :
         (approve_verification(e) /\ employer[e].verification_tier # "DOCUMENT_VERIFIED")
             => (last' = "failed" /\ employer'[e] = employer[e])]_vars

\* C12: a confirm on an employer whose work email is already verified fails,
\* whatever the code, and changes nothing.
C12_ConfirmOnlyOnce ==
    [][\A e \in Employers, code \in Codes :
         (confirm_work_email_verification(e, code) /\ employer[e].work_email_verified)
             => (last' = "confirm_failed" /\ employer'[e] = employer[e])]_vars

\* C13: a confirm succeeds exactly when the employer is not yet verified, a
\* code is pending, at most 15 minutes have passed since it was sent and the
\* submitted code is the pending one; a failed confirm changes nothing.
C13_ConfirmSucceedsIff ==
    [][\A e \in Employers, code \in Codes :
         confirm_work_email_verification(e, code) =>
             LET emp == employer[e]
                 due == /\ ~emp.work_email_verified
                        /\ emp.work_email_verification_token # None
                        /\ now <= emp.work_email_verification_sent_at + CodeLifetime
                        /\ emp.work_email_verification_token = code
             IN  /\ (last' = "confirmed") <=> due
                 /\ ~due => employer'[e] = emp]_vars

C15_OneOutstandingCode ==
    [][\A e \in Employers :
         LET old == employer[e].work_email_verification_token
             new == employer'[e].work_email_verification_token
         IN  /\ \A code \in Codes :
                  (/\ confirm_work_email_verification(e, code)
                   /\ old # None
                   /\ code # old)
                  => (last' = "confirm_failed" /\ employer'[e] = employer[e])
             /\ (old # None /\ new # None /\ new # old)
                  => /\ ~verify_work_email(employer'[e], old, now').ok
                     /\ ~employer'[e].work_email_verified
                            => verify_work_email(employer'[e], new, now').ok]_vars

\* a resend has just replaced the pending code by a different one
C15_Witness ==
    /\ last = "reissued"
    /\ \E e \in Employers :
          /\ ~employer[e].work_email_verified
          /\ employer[e].work_email_verification_token # None
          /\ employer[e].work_email_verification_sent_at = now

\* ------------------------------------------------------------------------
\* Properties of concurrent resends (SpecResend)
\* ------------------------------------------------------------------------
\* C16: under any interleaving of resend calls, a resend stores a new code
\* only if at least 2 minutes have passed since the code on the row was sent.
C16_ResendLimitUnderConcurrency ==
    [][\A p \in Procs :
         (resend_write(p) /\ employer[req[p].e].work_email_verification_sent_at # NoTime)
             => now - employer[req[p].e].work_email_verification_sent_at >= ResendInterval]_vars

\* C17: in every reachable state the trust score of every employer lies
\* between 0 and 100, both included.
C17_TrustScoreInRange ==
    \A e \in Employers :
        /\ employer[e].trust_score >= 0
        /\ employer[e].trust_score <= 100

\* a document submission has just been served and left the score at the cap
C17_Witness ==
    /\ last = "served"
    /\ \E e \in Employers :
          /\ employer[e].verification_tier = "DOCUMENT_VERIFIED"
          /\ employer[e].trust_score = 100
          /\ Len(employer[e].verification_notes) = MaxNotes

\* C18: can_post_job denies when subscription_status is not ACTIVE; else
\* denies when the tier is UNVERIFIED, SUSPENDED or REJECTED; else allows when
\* the limit looked up is -1; otherwise allows exactly when
\* active_job_posts_count < limit, and then reports limit - active_job_posts_count
\* remaining slots.
C18_CanPostJobDecision ==
    last.op \in {"get_posting_status", "get_full_status"} =>
        LET emp == employer[last.e]
            limit == get_job_posting_limit(emp)
            n == emp.active_job_posts_count
            allowed ==
                /\ emp.subscription_status = "ACTIVE"
                /\ emp.verification_tier \notin {"UNVERIFIED", "SUSPENDED", "REJECTED"}
                /\ \/ limit = -1
                   \/ n < limit
        IN  /\ last.can_post_job = allowed
            /\ (allowed /\ limit # -1) => last.message_remaining = limit - n

\* the last of 150 slots is reported as the one remaining
C18_Witness ==
    /\ last.op = "get_posting_status"
    /\ last.can_post_job
    /\ last.job_posting_limit = 150
    /\ last.active_jobs = 149
    /\ last.message_remaining = 1

\* C19: the quota lookup returns the fixed matrix for the 16 pairs of
\* FREE/BASIC/PREMIUM/BUSINESS with UNVERIFIED/EMAIL_VERIFIED/
\* DOCUMENT_VERIFIED/FULLY_VERIFIED, with quota(FREE, EMAIL_VERIFIED) = 2 and
\* quota(BUSINESS, FULLY_VERIFIED) = -1, and an ACTIVE BUSINESS/FULLY_VERIFIED
\* employer may post whatever active_job_posts_count is.
C19_QuotaMatrix ==
    last.op \in {"get_posting_status", "get_full_status"} =>
        LET emp == employer[last.e]
            sub == emp.subscription_tier
            tier == emp.verification_tier
            column == CASE tier = "UNVERIFIED" -> 1
                        [] tier = "EMAIL_VERIFIED" -> 2
                        [] tier = "DOCUMENT_VERIFIED" -> 3
                        [] tier = "FULLY_VERIFIED" -> 4
                        [] OTHER -> 0
            matrix == CASE sub = "FREE" -> <<0, 2, 3, 5>>
                        [] sub = "BASIC" -> <<0, 5, 10, 15>>
                        [] sub = "PREMIUM" -> <<0, 20, 50, 100>>
                        [] sub = "BUSINESS" -> <<0, 50, 150, -1>>
        IN  /\ column # 0 => last.job_posting_limit = matrix[column]
            /\ (sub = "FREE" /\ tier = "EMAIL_VERIFIED") => last.job_posting_limit = 2
            /\ (sub = "BUSINESS" /\ tier = "FULLY_VERIFIED") =>
                  /\ last.job_posting_limit = -1
                  /\ emp.subscription_status = "ACTIVE" => last.can_post_job

\* an ACTIVE BUSINESS/FULLY_VERIFIED employer with the largest counter drawn
\* is told it may post
C19_Witness ==
    /\ last.op = "get_full_status"
    /\ last.can_post_job
    /\ last.unlimited
    /\ last.active_jobs = MaxActive
    /\ employer[last.e].subscription_tier = "BUSINESS"
    /\ employer[last.e].verification_tier = "FULLY_VERIFIED"
    /\ employer[last.e].subscription_status = "ACTIVE"

C21_SubmissionNeedsCompletePair ==
    [][\A e \in Employers, documents \in DocumentSets :
         submit_verification_documents(e, documents) =>
             LET emp == employer[e]
                 pair == \/ documents.rjsc_registration_number /\ documents.incorporation_cert
                         \/ documents.trade_license_number /\ documents.trade_license
                         \/ documents.tin_number /\ documents.tin_certificate
                 due == pair /\ emp.verification_tier # "FULLY_VERIFIED"
                 raised == IF emp.trust_score + 15 > 100 THEN 100 ELSE emp.trust_score + 15
             IN  /\ last' \in {"served", "failed"}
                 /\ last' = "served" => due
                 /\ last' = "failed" => employer'[e] = emp
                 /\ (last' = "served" /\ emp.verification_tier \in {"EMAIL_VERIFIED", "REJECTED"})
                       => /\ employer'[e].verification_tier = "DOCUMENT_VERIFIED"
                          /\ employer'[e].trust_score = raised]_vars

\* the first submission of an employer confirmed at 60 has been served
C21_Witness ==
    /\ last = "served"
    /\ \E e \in Employers :
          /\ employer[e].verification_tier = "DOCUMENT_VERIFIED"
          /\ employer[e].trust_score = 75
          /\ employer[e].verification_notes = <<"Submitted">>

\* C22: verification_notes is append-only: whenever an operation changes the
\* trail, the earlier trail is a proper prefix of the later one, so nothing
\* written earlier is removed, rewritten or moved.
C22_NotesAppendOnly ==
    [][\A e \in Employers :
         LET old == employer[e].verification_notes
             new == employer'[e].verification_notes
         IN  new # old =>
                 /\ Len(new) > Len(old)
                 /\ SubSeq(new, 1, Len(old)) = old]_vars

\* C23: with the sweep kept running, every job that is active, not closed and
\* past its deadline eventually stops being so; a pass that completes leaves
\* no such job, gives each job it closed is_active false, is_closed true and
\* closure_reason deadline_passed, leaves the other jobs alone, and takes
\* from each owner's counter one per job closed, stopping at 0.
C23_ExpiredJobsGetClosed ==
    /\ [][close_expired_jobs =>
             /\ \A j \in JobIds :
                   IF Expired(j, now)
                   THEN /\ ~jobs'[j].is_active
                        /\ jobs'[j].is_closed
                        /\ jobs'[j].closure_reason = "deadline_passed"
                   ELSE jobs'[j] = jobs[j]
             /\ \A e \in Employers :
                   LET closed == Cardinality({j \in JobIds :
                                    Expired(j, now) /\ jobs[j].employer_id = e})
                       n == employer[e].active_job_posts_count
                   IN  employer'[e] = [employer[e] EXCEPT !.active_job_posts_count =
                                           IF n > closed THEN n - closed ELSE 0]]_vars
    /\ (\E j \in JobIds : Expired(j, now)) ~> (\A j \in JobIds : ~Expired(j, now))

\* a pass has just closed two jobs at once
C23_Witness ==
    /\ last = "sweep"
    /\ now = 1
    /\ \A j \in JobIds :
          /\ IsRow(j)
          /\ jobs[j].is_closed
          /\ ~jobs[j].is_active
          /\ jobs[j].closure_reason = "deadline_passed"
          /\ j \in paid

\* C24: through either reopen endpoint a reopen is served only for a closed
\* job whose owner can_post_job() admits, and with a deadline in the future;
\* a served reopen makes the job active and not closed, adds exactly 1 to
\* active_job_posts_count and leaves total_job_posts_count alone; a refused
\* reopen changes nothing.
C24_ReopenCountsTowardsLimit ==
    [][\A e \in Employers, j \in JobIds :
         (\/ \E d \in Deadlines : JobRoutes_reopen_job(e, j, d)
          \/ EmployerRoutes_reopen_job(e, j))
         => IF last' = "served"
            THEN /\ jobs[j].is_closed
                 /\ can_post_job(employer[e]).ok
                 /\ jobs'[j].application_deadline > now
                 /\ jobs'[j].is_active /\ ~jobs'[j].is_closed
                 /\ employer'[e].active_job_posts_count
                       = employer[e].active_job_posts_count + 1
                 /\ employer'[e].total_job_posts_count
                       = employer[e].total_job_posts_count
            ELSE jobs' = jobs /\ employer' = employer]_vars

\* C25: total_job_posts_count never decreases, and every step adds to it
\* exactly the number of jobs of the employer the step created: 1 for an
\* admitted creation, 0 for anything else.
C25_TotalCountsEveryCreation ==
    [][\A e \in Employers :
         LET created == {j \in JobIds : /\ jobs[j] = NoJob
                                         /\ jobs'[j] # NoJob
                                         /\ jobs'[j].employer_id = e}
         IN  /\ employer'[e].total_job_posts_count >= employer[e].total_job_posts_count
             /\ employer'[e].total_job_posts_count
                   = employer[e].total_job_posts_count + Cardinality(created)]_vars

\* C26: a cancellation does not take effect at once: while now is before
\* subscription_expires_at, can_post_job answers after cancel_subscription
\* what it answered before, and does not deny for an inactive subscription.
C26_CancelKeepsRightsUntilExpiry ==
    [][\A e \in Employers :
         (/\ cancel_subscription(e)
          /\ employer[e].subscription_tier # "FREE"
          /\ now < employer[e].subscription_expires_at)
         => /\ can_post_job(employer'[e]) = can_post_job(employer[e])
            /\ can_post_job(employer'[e]).reason # "Subscription is not active"]_vars

\* C27: in every reachable state each employer's active_job_posts_count is
\* the number of its jobs with is_active true and is_closed false.
C27_CounterMatchesOpenJobs ==
    \A e \in Employers :
        employer[e].active_job_posts_count = Cardinality(OpenJobsOf(e))

\* C28: in every reachable state an employer at EMAIL_VERIFIED,
\* DOCUMENT_VERIFIED or FULLY_VERIFIED has work_email_verified true.
C28_PostingTierImpliesVerifiedEmail ==
    \A e \in Employers :
        employer[e].verification_tier
            \in {"EMAIL_VERIFIED", "DOCUMENT_VERIFIED", "FULLY_VERIFIED"}
        => employer[e].work_email_verified

\* C29: in every reachable state an employer with work_email_verified true
\* has no pending code stored.
C29_VerifiedHasNoPendingCode ==
    \A e \in Employers :
        employer[e].work_email_verified
        => employer[e].work_email_verification_token = None

\* C30: an expiry-sweep pass is all or nothing: a pass in which an exception
\* is raised, after any number of jobs have been processed, leaves every job
\* and every employer counter as they were (its result is 0 jobs closed); a
\* pass without an exception closes every eligible job and adjusts every
\* owner's counter in the one step of its commit, and touches no other job.
C30_SweepAllOrNothing ==
    [][(close_expired_jobs \/ close_expired_jobs_error) =>
          LET eligible == {j \in JobIds : Expired(j, now)}
              changed == {j \in JobIds : jobs'[j] # jobs[j]}
          IN  \/ /\ last' = "sweep_failed"
                 /\ changed = {}
                 /\ employer' = employer
                 /\ paid' = paid
              \/ /\ last' \in {"sweep", "sweep_again"}
                 /\ changed = eligible
                 /\ \A j \in eligible : jobs'[j].is_closed /\ ~jobs'[j].is_active
                 /\ \A e \in Employers :
                       LET mine == {j \in eligible : jobs[j].employer_id = e}
                           n == employer[e].active_job_posts_count
                       IN  employer'[e].active_job_posts_count =
                               IF n > Cardinality(mine) THEN n - Cardinality(mine) ELSE 0]_vars

\* a pass has failed while two jobs were eligible and their owner's counter
\* was above 0: both are still open and the counter still counts them
C30_Witness ==
    /\ last = "sweep_failed"
    /\ \A j \in JobIds : Expired(j, now)
    /\ \A e \in Employers : employer[e].active_job_posts_count = MaxJobs

====
